---- MODULE Spec2Model ----
(***************************************************************************)
(* The "posts" collection of database "mydb" as src/main.rs drives it:     *)
(* drop, create with a $jsonSchema validator, create an index, insert_many,*)
(* find, update_many, delete_many and an $unwind/$group aggregation.       *)
(*                                                                         *)
(* Three specifications share the operations:                              *)
(*   Spec        the CRUD and aggregation calls, with arbitrary arguments, *)
(*               on the collection as main creates it (lines 16-57);       *)
(*   SpecStore   the lifecycle calls (drop, create, create_index) on a     *)
(*               store with arbitrary prior content;                       *)
(*   SpecScript  main itself, statement by statement, from arbitrary prior *)
(*               content, each call able to fail on the connection.        *)
(***************************************************************************)
EXTENDS Integers, Sequences, FiniteSets, TLC

VARIABLES
    exists,     \* the collection "posts" exists in the store
    options,    \* its validator, validation level and validation action
    indexes,    \* names of its indexes
    docs,       \* its documents, in natural (insertion) order
    nextOid,    \* the next value ObjectId::new() returns
    result,     \* what the last driver call returned
    pc,         \* main's position ("caller" outside SpecScript)
    stdout      \* what main has printed

vars == <<exists, options, indexes, docs, nextOid, result, pc, stdout>>

(***************************************************************************)
(* Bounds of the model.                                                    *)
(***************************************************************************)
MaxOid == 3       \* ObjectIds handed out in one behaviour
MaxBatch == 2     \* posts in one insert_many

(***************************************************************************)
(* The validator's numbers (main.rs lines 27-43).                          *)
(***************************************************************************)
TitleMaxLength == 300
MessageMaxLength == 4000
TagsMaxItems == 5
TagMinLength == 3
TagMaxLength == 10

RequiredFields == {"title", "message", "tags"}

(***************************************************************************)
(* Text.  Strings are TLA+ strings; Text(n) is a string of n characters.   *)
(***************************************************************************)
RECURSIVE Text(_)
Text(n) ==
    IF n = 0 THEN ""
    ELSE LET h == Text(n \div 2)
         IN  IF n % 2 = 0 THEN h \o h ELSE h \o h \o "x"

Range(s) == {s[i] : i \in 1..Len(s)}

(***************************************************************************)
(* struct Post and struct TagWithPosts with their serde mappings: the      *)
(* field id (tag) is stored as _id, every other field under its own name.  *)
(***************************************************************************)
NewPost(oid, fields) ==
    [id |-> oid, title |-> fields.title, message |-> fields.message,
     tags |-> fields.tags]

\* (mutant) the tags serialized last to first
ToDocumentTagsReversed(post) ==
    [_id |-> post.id, title |-> post.title, message |-> post.message,
     tags |-> [i \in 1..Len(post.tags) |-> post.tags[Len(post.tags) + 1 - i]]]

ToDocument(post) ==
    [_id |-> post.id, title |-> post.title, message |-> post.message,
     tags |-> post.tags]

FromDocument(doc) ==
    [id |-> doc._id, title |-> doc.title, message |-> doc.message,
     tags |-> doc.tags]

ToTagWithPosts(group) ==
    [tag |-> group._id, post_ids |-> group.post_ids]

(***************************************************************************)
(* The three posts main inserts (without their ids).                       *)
(***************************************************************************)
Post1 == [title |-> "Post 1", message |-> "This is post 1", tags |-> <<"tag1">>]
Post2 == [title |-> "Post 2", message |-> "This is post 2",
          tags |-> <<"tag1", "tag2">>]
Post3 == [title |-> "Hello", message |-> "World", tags |-> <<"tag1", "tag3">>]

SamplePosts == <<Post1, Post2, Post3>>

(***************************************************************************)
(* The collection options main builds, and the validator.                  *)
(***************************************************************************)
\* (mutant) ValidationAction::Warn in place of ValidationAction::Error
ScriptOptionsWarn ==
    [validator |-> TRUE, validationLevel |-> "strict",
     validationAction |-> "warn"]

ScriptOptions ==
    [validator |-> TRUE, validationLevel |-> "strict",
     validationAction |-> "error"]

NoOptions ==
    [validator |-> FALSE, validationLevel |-> "strict",
     validationAction |-> "error"]

\* "items": every tag is a string of 3 to 10 characters
TagItemOk(tag) == Len(tag) >= TagMinLength /\ Len(tag) <= TagMaxLength

\* "title": a string of at most 300 characters
TitleOk(title) == Len(title) <= TitleMaxLength

\* "message": a string of at most 4000 characters
MessageOk(message) == Len(message) <= MessageMaxLength

\* (mutant) the item count compared one off
MaxItemsOffByOne(tags) == Len(tags) <= TagsMaxItems + 1

\* "tags": an array of at most 5 items
MaxItemsOk(tags) == Len(tags) <= TagsMaxItems

ItemsOk(tags) == \A i \in 1..Len(tags) : TagItemOk(tags[i])

TagsOk(tags) == MaxItemsOk(tags) /\ ItemsOk(tags)

\* the $jsonSchema as a whole: "required", then each property that is present
Validates(doc) ==
    /\ RequiredFields \subseteq DOMAIN doc
    /\ "title" \in DOMAIN doc => TitleOk(doc.title)
    /\ "message" \in DOMAIN doc => MessageOk(doc.message)
    /\ "tags" \in DOMAIN doc => TagsOk(doc.tags)

\* what the store's validation error names: the required fields that are
\* missing and the properties that are not satisfied
NotSatisfied(doc) ==
    {"required" : f \in RequiredFields \ DOMAIN doc}
        \cup {"title.maxLength" : f \in {f \in {"title"} \cap DOMAIN doc :
                                            ~TitleOk(doc.title)}}
        \cup {"message.maxLength" : f \in {f \in {"message"} \cap DOMAIN doc :
                                              ~MessageOk(doc.message)}}
        \cup {"tags.maxItems" : f \in {f \in {"tags"} \cap DOMAIN doc :
                                          ~MaxItemsOk(doc.tags)}}
        \cup {"tags.items" : f \in {f \in {"tags"} \cap DOMAIN doc :
                                       ~ItemsOk(doc.tags)}}

\* whether the store accepts writing doc under the collection's options
WriteAllowed(opts, doc) ==
    \/ ~opts.validator
    \/ opts.validationLevel = "off"
    \/ opts.validationAction = "warn"
    \/ Validates(doc)

(***************************************************************************)
(* Filters: doc! { "tags": t } and doc! { "_id": oid }.  Equality on an    *)
(* array field matches when some element of the array equals the value.    *)
(***************************************************************************)
TagFilter(t) == [field |-> "tags", value |-> t]
IdFilter(oid) == [field |-> "_id", value |-> oid]

\* (mutant) only the first element of the array is compared
MatchesFirstElement(doc, filter) ==
    IF filter.field = "tags"
    THEN "tags" \in DOMAIN doc /\ Len(doc.tags) > 0 /\ doc.tags[1] = filter.value
    ELSE doc._id = filter.value

Matches(doc, filter) ==
    IF filter.field = "tags"
    THEN "tags" \in DOMAIN doc /\ \E i \in 1..Len(doc.tags) : doc.tags[i] = filter.value
    ELSE doc._id = filter.value

Matching(col, filter) == SelectSeq(col, LAMBDA d : Matches(d, filter))

(***************************************************************************)
(* insert_many(posts, None): with no options the write is ordered; the     *)
(* documents go in one after the other and the first one the store rejects *)
(* ends the call, with the documents before it kept.                       *)
(***************************************************************************)
RECURSIVE FirstRejected(_, _, _)
FirstRejected(opts, batch, i) ==
    IF i > Len(batch) THEN 0
    ELSE IF ~WriteAllowed(opts, batch[i]) THEN i
    ELSE FirstRejected(opts, batch, i + 1)

\* (mutant) an unordered write: every document the store accepts goes in
InsertedUnordered(opts, batch) == SelectSeq(batch, LAMBDA d : WriteAllowed(opts, d))

InsertedPrefix(opts, batch) ==
    LET k == FirstRejected(opts, batch, 1)
    IN  IF k = 0 THEN batch ELSE SubSeq(batch, 1, k - 1)

(***************************************************************************)
(* update_many(filter, { "$set": { "title": t } }, None): the matching     *)
(* documents are rewritten in natural order; a document whose title is     *)
(* already t is matched but not written; the first rewritten document the  *)
(* store rejects ends the call, earlier rewrites kept.                     *)
(***************************************************************************)
SetTitle(doc, title) ==
    [f \in (DOMAIN doc) \cup {"title"} |-> IF f = "title" THEN title ELSE doc[f]]

\* (mutant) the filter is not applied: every document is rewritten
NeedsWriteUnfiltered(doc, filter, title) ==
    "title" \notin DOMAIN doc \/ doc.title # title

NeedsWrite(doc, filter, title) ==
    Matches(doc, filter) /\ ("title" \notin DOMAIN doc \/ doc.title # title)

RECURSIVE FirstRejectedUpdate(_, _, _, _, _)
FirstRejectedUpdate(opts, col, filter, title, i) ==
    IF i > Len(col) THEN 0
    ELSE IF /\ NeedsWrite(col[i], filter, title)
            /\ ~WriteAllowed(opts, SetTitle(col[i], title)) THEN i
    ELSE FirstRejectedUpdate(opts, col, filter, title, i + 1)

UpdatedDocs(opts, col, filter, title) ==
    LET k == FirstRejectedUpdate(opts, col, filter, title, 1)
        last == IF k = 0 THEN Len(col) ELSE k - 1
    IN  [i \in 1..Len(col) |->
            IF i <= last /\ NeedsWrite(col[i], filter, title)
            THEN SetTitle(col[i], title)
            ELSE col[i]]

ModifiedCount(opts, col, filter, title) ==
    LET k == FirstRejectedUpdate(opts, col, filter, title, 1)
        last == IF k = 0 THEN Len(col) ELSE k - 1
    IN  Cardinality({i \in 1..last : NeedsWrite(col[i], filter, title)})

(***************************************************************************)
(* delete_many(filter, None).                                              *)
(***************************************************************************)
RECURSIVE RemainingAfterDeleteOne(_, _)
\* (mutant) delete_one: only the first matching document goes
RemainingAfterDeleteOne(col, filter) ==
    IF col = <<>> THEN <<>>
    ELSE IF Matches(Head(col), filter) THEN Tail(col)
    ELSE <<Head(col)>> \o RemainingAfterDeleteOne(Tail(col), filter)

Remaining(col, filter) == SelectSeq(col, LAMBDA d : ~Matches(d, filter))

\* what delete_many(filter) leaves and returns on a collection holding col
DeleteOutcome(col, filter) ==
    [docs |-> Remaining(col, filter),
     result |-> [op |-> "delete_many", ok |-> TRUE, error |-> "none",
                 deleted_count |-> Len(col) - Len(Remaining(col, filter))]]

(***************************************************************************)
(* The pipeline: { "$unwind": "$tags" } yields one document per element of *)
(* tags; { "$group": { "_id": "$tags", "post_ids": { "$addToSet": "$_id" }}}*)
(* collects, per tag, each _id once.  Groups and ids are kept here in      *)
(* order of first appearance; the store promises no order.                 *)
(***************************************************************************)
RECURSIVE Unwind(_)
Unwind(col) ==
    IF col = <<>> THEN <<>>
    ELSE LET d == Head(col)
         IN  (IF "tags" \in DOMAIN d
              THEN [i \in 1..Len(d.tags) |-> [_id |-> d._id, tags |-> d.tags[i]]]
              ELSE <<>>) \o Unwind(Tail(col))

\* (mutant) $push in place of $addToSet
Push(ids, oid) == Append(ids, oid)

AddToSet(ids, oid) ==
    IF oid \in Range(ids) THEN ids ELSE Append(ids, oid)

GroupAdd(groups, u) ==
    IF \E i \in 1..Len(groups) : groups[i]._id = u.tags
    THEN [i \in 1..Len(groups) |->
            IF groups[i]._id = u.tags
            THEN [groups[i] EXCEPT !.post_ids = AddToSet(@, u._id)]
            ELSE groups[i]]
    ELSE Append(groups, [_id |-> u.tags, post_ids |-> <<u._id>>])

RECURSIVE GroupByTag(_, _)
GroupByTag(unwound, groups) ==
    IF unwound = <<>> THEN groups
    ELSE GroupByTag(Tail(unwound), GroupAdd(groups, Head(unwound)))

Pipeline(col) == GroupByTag(Unwind(col), <<>>)

(***************************************************************************)
(* The driver calls.  Each sets the collection and result; the caller's    *)
(* own state (nextOid, pc, stdout) is left to the caller.                  *)
(***************************************************************************)
Ok(op) == [op |-> op, ok |-> TRUE, error |-> "none"]
Err(op, error) == [op |-> op, ok |-> FALSE, error |-> error]

NoResult == Ok("none")

DefaultIndexes == {"_id_"}

\* (mutant) the store's NamespaceNotFound is passed on to the caller
drop_ns_not_found ==
    IF exists
    THEN /\ exists' = FALSE
         /\ options' = NoOptions
         /\ indexes' = {}
         /\ docs' = <<>>
         /\ result' = Ok("drop")
    ELSE /\ result' = Err("drop", "NamespaceNotFound")
         /\ UNCHANGED <<exists, options, indexes, docs>>

\* collection("posts").drop(None): dropping a collection that does not exist
\* is not an error
drop ==
    /\ exists' = FALSE
    /\ options' = NoOptions
    /\ indexes' = {}
    /\ docs' = <<>>
    /\ result' = Ok("drop")

\* db.create_collection("posts", options)
create_collection ==
    IF exists
    THEN /\ result' = Err("create_collection", "NamespaceExists")
         /\ UNCHANGED <<exists, options, indexes, docs>>
    ELSE /\ exists' = TRUE
         /\ options' = ScriptOptions
         /\ indexes' = DefaultIndexes
         /\ docs' = <<>>
         /\ result' = Ok("create_collection")

\* col.create_index({ "tags": 1 }, None); a write to a collection that does
\* not exist creates it, without options
create_index ==
    /\ exists' = TRUE
    /\ options' = IF exists THEN options ELSE NoOptions
    /\ indexes' = (IF exists THEN indexes ELSE DefaultIndexes) \cup {"tags_1"}
    /\ docs' = docs
    /\ result' = Ok("create_index")

\* col.insert_many(posts, None)
insert_many(posts) ==
    LET documents == [i \in 1..Len(posts) |-> ToDocument(posts[i])]
        opts == IF exists THEN options ELSE NoOptions
        k == FirstRejected(opts, documents, 1)
        inserted == InsertedPrefix(opts, documents)
    IN  /\ exists' = TRUE
        /\ options' = opts
        /\ indexes' = IF exists THEN indexes ELSE DefaultIndexes
        /\ docs' = docs \o inserted
        /\ result' =
             IF k = 0
             THEN [op |-> "insert_many", ok |-> TRUE, error |-> "none",
                   inserted_ids |-> [i \in 1..Len(posts) |-> posts[i].id]]
             ELSE [op |-> "insert_many", ok |-> FALSE,
                   error |-> "ValidationError", index |-> k - 1,
                   details |-> NotSatisfied(documents[k])]

\* a document deserializes into Post when every field of the struct is there
Decodable(doc) == {"_id", "title", "message", "tags"} \subseteq DOMAIN doc

\* what find(filter) ... try_collect() returns on a collection holding col
FindResult(col, filter) ==
    LET found == Matching(col, filter)
    IN  IF \A i \in 1..Len(found) : Decodable(found[i])
        THEN [op |-> "find", ok |-> TRUE, error |-> "none",
              posts |-> [i \in 1..Len(found) |-> FromDocument(found[i])]]
        ELSE Err("find", "DecodeError")

\* col.find(filter, None) ... try_collect()
find(filter) ==
    /\ result' = FindResult(docs, filter)
    /\ UNCHANGED <<exists, options, indexes, docs>>

\* col.update_many(filter, { "$set": { "title": title } }, None)
update_many(filter, title) ==
    LET k == FirstRejectedUpdate(options, docs, filter, title, 1)
    IN  /\ docs' = UpdatedDocs(options, docs, filter, title)
        /\ result' =
             IF k = 0
             THEN [op |-> "update_many", ok |-> TRUE, error |-> "none",
                   matched_count |-> Len(Matching(docs, filter)),
                   modified_count |-> ModifiedCount(options, docs, filter, title)]
             ELSE [op |-> "update_many", ok |-> FALSE,
                   error |-> "ValidationError",
                   details |-> NotSatisfied(SetTitle(docs[k], title))]
        /\ UNCHANGED <<exists, options, indexes>>

\* col.delete_many(filter, None)
delete_many(filter) ==
    /\ docs' = DeleteOutcome(docs, filter).docs
    /\ result' = DeleteOutcome(docs, filter).result
    /\ UNCHANGED <<exists, options, indexes>>

\* col.aggregate(pipeline, None).with_type::<TagWithPosts>() ... try_collect()
aggregate ==
    LET groups == Pipeline(docs)
    IN  /\ result' = [op |-> "aggregate", ok |-> TRUE, error |-> "none",
                      post_by_tags |->
                          [i \in 1..Len(groups) |-> ToTagWithPosts(groups[i])]]
        /\ UNCHANGED <<exists, options, indexes, docs>>

\* the posts a caller builds from field values, each with id ObjectId::new()
NewPosts(batch) == [i \in 1..Len(batch) |-> NewPost(nextOid + i - 1, batch[i])]

(***************************************************************************)
(* Spec: the calls with arbitrary arguments on the collection main sets up.*)
(***************************************************************************)
\* field values callers insert: the samples, one post at every limit of the
\* schema (with a tag repeated), and one post beyond each limit
AtLimits ==
    [title |-> Text(TitleMaxLength), message |-> Text(MessageMaxLength),
     tags |-> <<"abc", "abc", "abc", "abc", Text(TagMaxLength)>>]
SixTags ==
    [title |-> "Six", message |-> "six tags",
     tags |-> <<"tag1", "tag2", "tag3", "tag4", "tag5", "tag6">>]
LongTitle ==
    [title |-> Text(TitleMaxLength + 1), message |-> "long title",
     tags |-> <<"tag1">>]
LongMessage ==
    [title |-> "Long", message |-> Text(MessageMaxLength + 1),
     tags |-> <<"tag2">>]
ShortTag == [title |-> "Short", message |-> "short tag", tags |-> <<"tag1", "t2">>]
LongTag ==
    [title |-> "Tag", message |-> "long tag",
     tags |-> <<Text(TagMaxLength + 1), "tag3">>]

PostFields ==
    {Post1, Post2, Post3, AtLimits, SixTags, LongTitle, LongMessage, ShortTag,
     LongTag}

\* batches of n posts
Batches(n) == [1..n -> PostFields]

FilterTags == {"tag1", "tag2"}
TagFilters == {TagFilter(t) : t \in FilterTags}
Filters == TagFilters \cup {IdFilter(i) : i \in 1..MaxOid}

NewTitles == {"Updated title", Text(TitleMaxLength + 1)}

Init ==
    /\ exists = TRUE
    /\ options = ScriptOptions
    /\ indexes = DefaultIndexes \cup {"tags_1"}
    /\ docs = <<>>
    /\ nextOid = 1
    /\ result = NoResult
    /\ pc = "caller"
    /\ stdout = <<>>

\* a caller builds the posts of batch and inserts them
InsertStep(batch) ==
    /\ insert_many(NewPosts(batch))
    /\ nextOid' = nextOid + Len(batch)
    /\ UNCHANGED <<pc, stdout>>

FindStep(filter) == find(filter) /\ UNCHANGED <<nextOid, pc, stdout>>

UpdateStep(filter, title) ==
    update_many(filter, title) /\ UNCHANGED <<nextOid, pc, stdout>>

DeleteStep(filter) == delete_many(filter) /\ UNCHANGED <<nextOid, pc, stdout>>

Insert ==
    \E n \in 1..MaxBatch :
        /\ nextOid + n - 1 <= MaxOid
        /\ \E batch \in Batches(n) : InsertStep(batch)

Find == \E filter \in Filters : FindStep(filter)

Update == \E filter \in TagFilters, title \in NewTitles : UpdateStep(filter, title)

Delete == \E filter \in TagFilters : DeleteStep(filter)

Aggregate == aggregate /\ UNCHANGED <<nextOid, pc, stdout>>

Next == Insert \/ Find \/ Update \/ Delete \/ Aggregate

Spec == Init /\ [][Next]_vars

(***************************************************************************)
(* What the store may hold before main runs: no collection, or a           *)
(* collection left by an earlier run or another program, with or without a *)
(* validator, with documents that need not fit Post nor the schema.        *)
(***************************************************************************)
OldPost ==
    [_id |-> -1, title |-> "Old", message |-> "old post", tags |-> <<"tag2">>]
OldNote == [_id |-> -2, title |-> "Note", tags |-> <<"t">>]

\* what an earlier run of main leaves behind
EarlierRun == <<ToDocument(NewPost(-4, Post1)), ToDocument(NewPost(-3, Post3))>>

PriorDocs ==
    {<<>>, <<OldPost>>, <<OldNote>>, <<OldPost, OldNote>>, <<OldNote, OldPost>>,
     EarlierRun}

PriorOptions ==
    {NoOptions,
     ScriptOptions,
     [validator |-> TRUE, validationLevel |-> "strict",
      validationAction |-> "warn"]}

PriorIndexes == {DefaultIndexes \cup extra : extra \in SUBSET {"tags_1", "title_1"}}

PriorStore ==
    \/ /\ exists = FALSE
       /\ options = NoOptions
       /\ indexes = {}
       /\ docs = <<>>
    \/ /\ exists = TRUE
       /\ options \in PriorOptions
       /\ indexes \in PriorIndexes
       /\ docs \in PriorDocs

(***************************************************************************)
(* SpecStore: the lifecycle calls, in any order, on any prior store.       *)
(***************************************************************************)
InitStore ==
    /\ PriorStore
    /\ nextOid = 1
    /\ result = NoResult
    /\ pc = "caller"
    /\ stdout = <<>>

Drop == drop /\ UNCHANGED <<nextOid, pc, stdout>>

CreateCollection == create_collection /\ UNCHANGED <<nextOid, pc, stdout>>

CreateIndex == create_index /\ UNCHANGED <<nextOid, pc, stdout>>

NextStore == Drop \/ CreateCollection \/ CreateIndex

SpecStore == InitStore /\ [][NextStore]_vars

(***************************************************************************)
(* SpecScript: main.  Every call is followed by expect(): a call that      *)
(* fails ends the program.  Any call can fail on the connection.           *)
(***************************************************************************)
Expect(res, next) == IF res.ok THEN next ELSE "panicked"

Println(out, res) == Append(out, res)

InitScript ==
    /\ PriorStore
    /\ nextOid = 1
    /\ result = NoResult
    /\ pc = "connect"
    /\ stdout = <<>>

\* Client::with_uri_str(...).expect(...); client.database("mydb")
MainConnect ==
    /\ pc = "connect"
    /\ pc' = "drop"
    /\ result' = Ok("connect")
    /\ UNCHANGED <<exists, options, indexes, docs, nextOid, stdout>>

MainDrop ==
    /\ pc = "drop"
    /\ drop
    /\ pc' = Expect(result', "create_collection")
    /\ UNCHANGED <<nextOid, stdout>>

MainCreateCollection ==
    /\ pc = "create_collection"
    /\ create_collection
    /\ pc' = Expect(result', "create_index")
    /\ UNCHANGED <<nextOid, stdout>>

MainCreateIndex ==
    /\ pc = "create_index"
    /\ create_index
    /\ pc' = Expect(result', "insert_many")
    /\ UNCHANGED <<nextOid, stdout>>

MainInsert ==
    /\ pc = "insert_many"
    /\ insert_many(NewPosts(SamplePosts))
    /\ nextOid' = nextOid + Len(SamplePosts)
    /\ pc' = Expect(result', "find_tag1")
    /\ UNCHANGED stdout

MainFindTag1 ==
    /\ pc = "find_tag1"
    /\ find(TagFilter("tag1"))
    /\ pc' = Expect(result', "update_many")
    /\ stdout' = IF result'.ok THEN Println(stdout, result'.posts) ELSE stdout
    /\ UNCHANGED nextOid

MainUpdate ==
    /\ pc = "update_many"
    /\ update_many(TagFilter("tag2"), "Updated title")
    /\ pc' = Expect(result', "find_updated")
    /\ UNCHANGED <<nextOid, stdout>>

MainFindUpdated ==
    /\ pc = "find_updated"
    /\ find(TagFilter("tag2"))
    /\ pc' = Expect(result', "delete_many")
    /\ stdout' = IF result'.ok THEN Println(stdout, result'.posts) ELSE stdout
    /\ UNCHANGED nextOid

\* (mutant) the delete filter names tag1
MainDeleteTag1 ==
    /\ pc = "delete_many"
    /\ delete_many(TagFilter("tag1"))
    /\ pc' = Expect(result', "find_deleted")
    /\ UNCHANGED <<nextOid, stdout>>

MainDelete ==
    /\ pc = "delete_many"
    /\ delete_many(TagFilter("tag2"))
    /\ pc' = Expect(result', "find_deleted")
    /\ UNCHANGED <<nextOid, stdout>>

MainFindDeleted ==
    /\ pc = "find_deleted"
    /\ find(TagFilter("tag2"))
    /\ pc' = Expect(result', "aggregate")
    /\ stdout' = IF result'.ok THEN Println(stdout, result'.posts) ELSE stdout
    /\ UNCHANGED nextOid

MainAggregate ==
    /\ pc = "aggregate"
    /\ aggregate
    /\ pc' = Expect(result', "done")
    /\ stdout' = IF result'.ok THEN Println(stdout, result'.post_by_tags) ELSE stdout
    /\ UNCHANGED nextOid

\* the call main is about to make fails on the connection: expect() panics
ConnectionFailure ==
    /\ pc \notin {"done", "panicked"}
    /\ result' = Err(pc, "ConnectionError")
    /\ pc' = "panicked"
    /\ UNCHANGED <<exists, options, indexes, docs, nextOid, stdout>>

NextScript ==
    \/ MainConnect
    \/ MainDrop
    \/ MainCreateCollection
    \/ MainCreateIndex
    \/ MainInsert
    \/ MainFindTag1
    \/ MainUpdate
    \/ MainFindUpdated
    \/ MainDelete
    \/ MainFindDeleted
    \/ MainAggregate
    \/ ConnectionFailure

SpecScript == InitScript /\ [][NextScript]_vars

(***************************************************************************)
(* Vocabulary of the properties, stated on documents directly.             *)
(***************************************************************************)
HasTag(doc, t) == \E i \in 1..Len(doc.tags) : doc.tags[i] = t

\* the positions of the documents of col tagged t
Tagged(col, t) == {i \in 1..Len(col) : HasTag(col[i], t)}

\* the Post a document reads as
AsPost(doc) ==
    [id |-> doc._id, title |-> doc.title, message |-> doc.message,
     tags |-> doc.tags]

\* the field values of a document, without its id
Fields(doc) == [title |-> doc.title, message |-> doc.message, tags |-> doc.tags]

\* the ids of the documents of col with these field values
IdsOf(col, fields) == {col[i]._id : i \in {j \in 1..Len(col) : Fields(col[j]) = fields}}

\* the schema's bounds, as the data model states them
FitsSchema(doc) ==
    /\ {"title", "message", "tags"} \subseteq DOMAIN doc
    /\ Len(doc.title) <= 300
    /\ Len(doc.message) <= 4000
    /\ Len(doc.tags) <= 5
    /\ \A i \in 1..Len(doc.tags) : Len(doc.tags[i]) >= 3 /\ Len(doc.tags[i]) <= 10

\* col holds the three sample posts, each once, as inserted
HoldsSamples(col) ==
    /\ Len(col) = 3
    /\ {Fields(col[i]) : i \in 1..Len(col)} = {Post1, Post2, Post3}

\* batches of n posts, each one of two that fit the schema or one that does
\* not
MixedBatches(n) == [1..n -> {Post2, AtLimits, SixTags}]

(***************************************************************************)
(* C1: find({tags: t}) returns exactly the records whose tags contain t,   *)
(* each once and as stored; on the three samples it returns three records  *)
(* for tag1 and one for tag2.                                              *)
(***************************************************************************)
FindReturnsExactlyTheTagged ==
    [][result'.op = "find" => \A t \in FilterTags :
         FindStep(TagFilter(t)) =>
            /\ result'.ok
            /\ Len(result'.posts) = Cardinality(Tagged(docs, t))
            /\ Range(result'.posts) = {AsPost(docs[i]) : i \in Tagged(docs, t)}
            /\ HoldsSamples(docs) =>
                 Len(result'.posts) = (IF t = "tag1" THEN 3 ELSE 1)]_vars

FoundAllThreeSamples ==
    /\ HoldsSamples(docs)
    /\ result.op = "find"
    /\ result.ok
    /\ Len(result.posts) = 3
    /\ \A i \in 1..3 : "tag1" \in Range(result.posts[i].tags)

(***************************************************************************)
(* C2: update_many({tags: t}, $set title) gives the new title to every     *)
(* record tagged t and changes nothing else: the same records in the same  *)
(* places, with their ids, messages and tags, and the titles of the        *)
(* untagged records as they were.  On the three samples and tag2 it        *)
(* matches and modifies exactly one record.  (The call fails only when the *)
(* validator rejects the new title, and then it changes nothing at all.)   *)
(***************************************************************************)
UpdateChangesOnlyTitlesOfTheTagged ==
    [][result'.op = "update_many" =>
       \A t \in FilterTags, title \in NewTitles :
         UpdateStep(TagFilter(t), title) =>
            /\ result'.ok <=> (Len(title) <= 300 \/ Tagged(docs, t) = {})
            /\ ~result'.ok => docs' = docs
            /\ result'.ok =>
                 result'.matched_count = Cardinality(Tagged(docs, t))
            /\ Len(docs') = Len(docs)
            /\ \A i \in 1..Len(docs) :
                 /\ DOMAIN docs'[i] = DOMAIN docs[i]
                 /\ docs'[i]._id = docs[i]._id
                 /\ docs'[i].message = docs[i].message
                 /\ docs'[i].tags = docs[i].tags
                 /\ docs'[i].title =
                      (IF result'.ok /\ i \in Tagged(docs, t)
                       THEN title ELSE docs[i].title)
            /\ (HoldsSamples(docs) /\ t = "tag2" /\ result'.ok) =>
                 result'.matched_count = 1 /\ result'.modified_count = 1
            /\ UNCHANGED <<exists, options, indexes>>]_vars

UpdatedOnlyTheTag2Sample ==
    /\ result.op = "update_many"
    /\ result.ok
    /\ result.matched_count = 1
    /\ result.modified_count = 1
    /\ Len(docs) = 3
    /\ {Fields(docs[i]) : i \in 1..Len(docs)} =
         {Post1, [Post2 EXCEPT !.title = "Updated title"], Post3}

(***************************************************************************)
(* C3: delete_many({tags: t}) succeeds, removes every record tagged t and  *)
(* no other, and reports how many it removed; a find({tags: t}) right      *)
(* after it returns the empty sequence, and a second delete_many({tags: t})*)
(* right after it succeeds with count 0 and changes nothing.               *)
(***************************************************************************)
DeleteRemovesExactlyTheTagged ==
    [][result'.op = "delete_many" => \A t \in FilterTags :
         DeleteStep(TagFilter(t)) =>
            /\ result'.ok
            /\ result'.deleted_count = Cardinality(Tagged(docs, t))
            /\ Tagged(docs', t) = {}
            /\ Len(docs') = Len(docs) - Cardinality(Tagged(docs, t))
            /\ Range(docs') = {docs[i] : i \in (1..Len(docs)) \ Tagged(docs, t)}
            /\ FindResult(docs', TagFilter(t)).ok
            /\ FindResult(docs', TagFilter(t)).posts = <<>>
            /\ DeleteOutcome(docs', TagFilter(t)).docs = docs'
            /\ DeleteOutcome(docs', TagFilter(t)).result.ok
            /\ DeleteOutcome(docs', TagFilter(t)).result.deleted_count = 0
            /\ UNCHANGED <<exists, options, indexes>>]_vars

DeletedTheTag2Sample ==
    /\ result.op = "delete_many"
    /\ result.ok
    /\ result.deleted_count = 1
    /\ Len(docs) = 2
    /\ {Fields(docs[i]) : i \in 1..Len(docs)} = {Post1, Post3}

(***************************************************************************)
(* C4: the aggregation returns one group per distinct tag of the           *)
(* collection, the group of a tag holding the ids of exactly the records   *)
(* whose tags contain it, each id once.  On the three samples, in whatever *)
(* order they were inserted, the groups are tag1 -> all three ids,         *)
(* tag2 -> the id of the second sample, tag3 -> the id of the third.       *)
(***************************************************************************)
AggregateGroupsIdsByTag ==
    result.op = "aggregate" =>
        LET groups == result.post_by_tags
            tags == UNION {Range(docs[i].tags) : i \in 1..Len(docs)}
        IN  /\ result.ok
            /\ {groups[g].tag : g \in 1..Len(groups)} = tags
            /\ Len(groups) = Cardinality(tags)
            /\ \A g \in 1..Len(groups) :
                 /\ Range(groups[g].post_ids) =
                      {docs[i]._id : i \in Tagged(docs, groups[g].tag)}
                 /\ Len(groups[g].post_ids) = Cardinality(Range(groups[g].post_ids))
            /\ HoldsSamples(docs) =>
                 {<<groups[g].tag, Range(groups[g].post_ids)>> : g \in 1..Len(groups)} =
                   {<<"tag1", {docs[i]._id : i \in 1..3}>>,
                    <<"tag2", IdsOf(docs, Post2)>>,
                    <<"tag3", IdsOf(docs, Post3)>>}

AggregatedSamplesInsertedInAnotherOrder ==
    /\ result.op = "aggregate"
    /\ HoldsSamples(docs)
    /\ Fields(docs[1]) = Post3
    /\ Fields(docs[2]) = Post1
    /\ Len(result.post_by_tags) = 3

(***************************************************************************)
(* C5: on the collection created with the script's validator, inserting a  *)
(* record with more than 5 tags (6), or with a title of more than 300      *)
(* characters, fails with a validation error and leaves the collection's   *)
(* content as it was.                                                      *)
(***************************************************************************)
InsertBeyondTheSchemaIsRejected ==
    [][(result'.op = "insert_many" /\ nextOid' = nextOid + 1) =>
       \A p \in PostFields :
         ((Len(p.tags) = 6 \/ Len(p.title) > 300) /\ InsertStep(<<p>>)) =>
            /\ ~result'.ok
            /\ result'.error = "ValidationError"
            /\ docs' = docs
            /\ UNCHANGED <<exists, options, indexes>>]_vars

RejectedSixTags ==
    /\ result.op = "insert_many"
    /\ ~result.ok
    /\ result.error = "ValidationError"
    /\ result.index = 0
    /\ result.details = {"tags.maxItems"}
    /\ Len(docs) > 0

InsertManyContinuesPastAFailure ==
    [][result'.op = "insert_many" =>
         \A batch \in MixedBatches(nextOid' - nextOid) :
            InsertStep(batch) =>
               \A i \in 1..Len(batch) :
                  FitsSchema(batch[i]) <=>
                     (\E j \in 1..Len(docs') : docs'[j]._id = nextOid + i - 1)]_vars

(***************************************************************************)
(* C7, amended: insert_many as main calls it is ordered.  The records      *)
(* before the first one that does not fit the schema are persisted, in     *)
(* order; that record and every record after it are not; the call fails    *)
(* with a validation error naming the position of that record.  A batch    *)
(* whose records all fit is persisted whole and the ids are returned.      *)
(***************************************************************************)
InsertManyStopsAtTheFirstFailure ==
    [][result'.op = "insert_many" =>
         \A batch \in MixedBatches(nextOid' - nextOid) :
            InsertStep(batch) =>
               LET bad == {i \in 1..Len(batch) : ~FitsSchema(batch[i])}
                   kept == IF bad = {} THEN Len(batch)
                           ELSE (CHOOSE i \in bad : \A j \in bad : i <= j) - 1
               IN  /\ Len(docs') = Len(docs) + kept
                   /\ \A j \in 1..Len(docs) : docs'[j] = docs[j]
                   /\ \A i \in 1..kept :
                        /\ docs'[Len(docs) + i]._id = nextOid + i - 1
                        /\ Fields(docs'[Len(docs) + i]) = batch[i]
                   /\ result'.ok <=> bad = {}
                   /\ bad = {} =>
                        result'.inserted_ids =
                          [i \in 1..Len(batch) |-> nextOid + i - 1]
                   /\ bad # {} =>
                        /\ result'.error = "ValidationError"
                        /\ result'.index = kept]_vars

InsertStoppedAtItsFirstRecord ==
    /\ result.op = "insert_many"
    /\ ~result.ok
    /\ result.index = 0
    /\ nextOid = 3
    /\ docs = <<>>

(***************************************************************************)
(* C8: drop succeeds whether or not the collection exists, and leaves no   *)
(* collection, documents or indexes; so two drops in a row both succeed,   *)
(* and a create_collection right after a drop succeeds.                    *)
(***************************************************************************)
DropAlwaysSucceeds ==
    /\ []((result.op = "drop") =>
            (result.ok /\ ~exists /\ docs = <<>> /\ indexes = {}))
    /\ [][Drop => (result'.op = "drop" /\ result'.ok)]_vars
    /\ [][(result.op = "drop" /\ CreateCollection) =>
            (result'.ok /\ exists' /\ options' = ScriptOptions /\ docs' = <<>>)]_vars

DroppedCollectionIsGone ==
    /\ result.op = "drop"
    /\ result.ok
    /\ ~exists
    /\ docs = <<>>
    /\ indexes = {}

(***************************************************************************)
(* C9: a record that fits the schema, once inserted, is found by its id as *)
(* exactly one record, with the id, title, message and tags it was         *)
(* inserted with, the tags in their order.                                 *)
(***************************************************************************)
InsertThenFindByIdRoundTrips ==
    [][(result'.op = "insert_many" /\ nextOid' = nextOid + 1) =>
       \A p \in PostFields :
         (FitsSchema(p) /\ InsertStep(<<p>>)) =>
            /\ result'.ok
            /\ FindResult(docs', IdFilter(nextOid)).ok
            /\ FindResult(docs', IdFilter(nextOid)).posts =
                 <<[id |-> nextOid, title |-> p.title, message |-> p.message,
                    tags |-> p.tags]>>]_vars

FoundTheAtLimitsPostById ==
    /\ result.op = "find"
    /\ result.ok
    /\ Len(result.posts) = 1
    /\ Fields(ToDocument(result.posts[1])) = AtLimits

(***************************************************************************)
(* C10: whatever the store held, when main ends without a failed call the  *)
(* collection holds exactly the samples tagged [tag1] and [tag1, tag3],    *)
(* titled "Post 1" and "Hello"; the find after the delete printed nothing; *)
(* the aggregation printed no tag2 group, a tag1 group with the two        *)
(* remaining ids and a tag3 group with one id.                             *)
(***************************************************************************)
MainEndsWithTheTwoUntaggedSamples ==
    pc = "done" =>
        /\ exists
        /\ Len(docs) = 2
        /\ {Fields(docs[i]) : i \in 1..Len(docs)} = {Post1, Post3}
        /\ Len(stdout) = 4
        /\ Len(stdout[1]) = 3
        /\ Len(stdout[2]) = 1
        /\ stdout[2][1].title = "Updated title"
        /\ stdout[3] = <<>>
        /\ {<<stdout[4][g].tag, Range(stdout[4][g].post_ids)>> :
              g \in 1..Len(stdout[4])} =
             {<<"tag1", {docs[1]._id, docs[2]._id}>>,
              <<"tag3", IdsOf(docs, Post3)>>}
        /\ \A g \in 1..Len(stdout[4]) :
              Len(stdout[4][g].post_ids) = Cardinality(Range(stdout[4][g].post_ids))
        /\ Cardinality(IdsOf(docs, Post3)) = 1

MainReachedItsEnd ==
    /\ pc = "done"
    /\ Len(stdout) = 4
    /\ Len(docs) = 2

====
